---- MODULE Spec2Model ----
(***************************************************************************)
(* A model of gtpm (src/gtpm.go): the pattern compiler Compile and the     *)
(* streaming match engine MatchReader with its five instruction kinds.     *)
(*                                                                         *)
(* Strings and byte slices are sequences of one-character strings.         *)
(* The integer slice matcher.intBinds is modelled with its backing arrays: *)
(* a slice header (array, len, cap) and a heap of arrays, because the      *)
(* instructions keep pointers (&matcher.intBinds[i]) into whichever array  *)
(* backed the slice when they were generated.                              *)
(***************************************************************************)
EXTENDS Integers, Sequences, FiniteSets, TLC

VARIABLES
    \* Compile: its arguments and locals (src/gtpm.go:78-93)
    pattern,      \* the pattern argument
    r,            \* read offset of bytes.NewBufferString(pattern)
    state,        \* parseState
    pos,          \* 1-based position of the field being parsed
    name,         \* name of the pending "var/int"
    intBindsMap,  \* name -> index into intBinds
    cret,         \* "idle" | "running" | "ok" | "error" | "panic"
    cerr,         \* the error Compile returned
    nfields,      \* number of loop iterations completed (history)
    \* TextPatternMatcher (src/gtpm.go:16-20)
    instSlice,    \* the instructions, as records
    intBinds,     \* slice header [arr, len, cap]
    maxVarSize,
    arrays,       \* heap: the backing arrays intBinds has had
    refs,         \* per instruction: the names its field references and binds (history)
    \* MatchReader invocations, one frame per caller
    m

vars == <<pattern, r, state, pos, name, intBindsMap, cret, cerr, nfields,
          instSlice, intBinds, maxVarSize, arrays, refs, m>>

compileVars == <<pattern, r, state, pos, name, intBindsMap, cret, cerr, nfields,
                 instSlice, intBinds, maxVarSize, refs>>

\* ---------------------------------------------------------------- bounds
MaxFieldsC == 3
MaxFields == 3
MaxSrcLen == 3
MaxFieldsK == 2
MaxSrcLenK == 4
MaxFieldsS == 2
MaxFill == 32
MaxFieldsR == 2
MaxSrcLenR == 3
MaxFieldsB == 3
MaxFieldsX == 2
MaxFieldsE == 2
MaxFillE == 16
MaxFieldsQ == 3
MaxSrcLenQ == 2
MaxFieldsW == 2
MaxFillW == 16
MaxFieldsZ == 2
MaxSrcLenZ == 3
MaxFieldsT == 2
MaxFillT == 3

\* ------------------------------------------------------ program constants
defaultMaxVarSize == 4096
InitBufSize == 16

nonParseState == "non"
blindParseState == "blind"
binParseState == "bin"
intParseState == "int"

\* ---------------------------------------------------------------- strings
Min(a, b) == IF a < b THEN a ELSE b

\* bytes.IndexByte: 1-based index of the first c in s, 0 when absent
IndexOf(s, c) ==
    IF \E i \in 1..Len(s) : s[i] = c
    THEN CHOOSE i \in 1..Len(s) : s[i] = c /\ \A j \in 1..(i-1) : s[j] # c
    ELSE 0

Contains(s, c) == IndexOf(s, c) # 0

RECURSIVE Split(_, _)
\* strings.Split with a one-byte separator
Split(s, sep) ==
    LET k == IndexOf(s, sep) IN
    IF k = 0 THEN <<s>>
    ELSE <<SubSeq(s, 1, k-1)>> \o Split(SubSeq(s, k+1, Len(s)), sep)

\* bytes.Buffer.ReadString(','): up to and including the first ',' after
\* offset off; io.EOF when there is none
ReadString(p, off) ==
    LET rest == SubSeq(p, off+1, Len(p))
        k == IndexOf(rest, ",")
    IN IF k = 0 THEN [raw |-> rest, eof |-> TRUE]
       ELSE [raw |-> SubSeq(rest, 1, k), eof |-> FALSE]

Digits == <<"0", "1", "2", "3", "4", "5", "6", "7", "8", "9">>

IsDigit(c) == \E d \in 1..10 : Digits[d] = c

DigitVal(c) == (CHOOSE d \in 1..10 : Digits[d] = c) - 1

RECURSIVE DecVal(_)
DecVal(s) ==
    IF s = <<>> THEN 0
    ELSE 10 * DecVal(SubSeq(s, 1, Len(s)-1)) + DigitVal(s[Len(s)])

\* strconv.ParseInt(s, 10, 64): optional sign, then one or more digits.
\* (Digit runs stay far below 19 digits here, so ErrRange cannot arise.)
ParseInt(s) ==
    LET signed == s # <<>> /\ s[1] \in {"+", "-"}
        body == IF signed THEN Tail(s) ELSE s
    IN IF body = <<>> \/ \E i \in 1..Len(body) : ~IsDigit(body[i])
       THEN [ok |-> FALSE, val |-> 0]
       ELSE [ok |-> TRUE,
             val |-> IF signed /\ s[1] = "-" THEN 0 - DecVal(body) ELSE DecVal(body)]

\* ------------------------------------------------- the intBinds slice
NilSlice == [arr |-> 0, len |-> 0, cap |-> 0]

Zeros(n) == [i \in 1..n |-> 0]

\* runtime.growslice for one more element: double (1 for a nil slice); the
\* capacities reached here are all size classes, so no rounding applies
GrowCap(cap) == IF cap = 0 THEN 1 ELSE 2 * cap

\* append(matcher.intBinds, v): in place when len < cap, else a new backing
\* array holding a copy; the old array stays alive through the pointers
\* instructions hold into it
AppendInt(sl, arrs, v) ==
    IF sl.len < sl.cap
    THEN [sl |-> [sl EXCEPT !.len = @ + 1],
          arrs |-> [arrs EXCEPT ![sl.arr][sl.len + 1] = v]]
    ELSE LET ncap == GrowCap(sl.cap)
             old == IF sl.arr = 0 THEN <<>> ELSE SubSeq(arrs[sl.arr], 1, sl.len)
         IN [sl |-> [arr |-> Len(arrs) + 1, len |-> sl.len + 1, cap |-> ncap],
             arrs |-> Append(arrs, old \o <<v>> \o Zeros(ncap - sl.len - 1))]

\* &matcher.intBinds[idx]: a pointer into the array backing the slice now
NilPtr == [arr |-> 0, idx |-> 0]

PtrTo(sl, idx) == [arr |-> sl.arr, idx |-> idx]

Deref(arrs, p) == arrs[p.arr][p.idx + 1]

\* Mutant of Store: the value goes into the cell below the one pointed to.
StoreBelow(arrs, p, v) ==
    IF p.idx = 0 THEN arrs ELSE [arrs EXCEPT ![p.arr][p.idx] = v]

\* Mutant of Store: the cell keeps the larger of its value and the new one.
StoreMax(arrs, p, v) ==
    [arrs EXCEPT ![p.arr][p.idx + 1] = IF @ > v THEN @ ELSE v]

\* Mutant of Store: the value stored is off by one.
StoreOffByOne(arrs, p, v) == [arrs EXCEPT ![p.arr][p.idx + 1] = v + 1]

Store(arrs, p, v) == [arrs EXCEPT ![p.arr][p.idx + 1] = v]

\* ------------------------------------------------------------- errors
NoCErr == [code |-> "nil", pos |-> 0, name |-> <<>>]

CompileError(code, p, n) == [code |-> code, pos |-> p, name |-> n]

NoErr == [code |-> "nil", pos |-> 0, cause |-> "nil", max |-> 0]

Error(code, p, cause) == [code |-> code, pos |-> p, cause |-> cause, max |-> 0]

\* -------------------------------------------------------- instructions
\* An instruction closure, as the record of what it captured.
Inst(op, p, bytes, size, out, capture, max) ==
    [op |-> op, pos |-> p, match |-> bytes, size |-> size, out |-> out,
     capture |-> capture, max |-> max]

genInstConst(p, match) == Inst("Const", p, match, NilPtr, NilPtr, FALSE, 0)

genInstVarWithSize(p, size, capture) == Inst("VarSized", p, <<>>, size, NilPtr, capture, 0)

genInstVarWithoutSize(p, suffix, capture, max) ==
    Inst("VarSuffix", p, suffix, NilPtr, NilPtr, capture, max)

genInstIntWithSize(p, size, outSize) == Inst("IntSized", p, <<>>, size, outSize, TRUE, 0)

genInstIntWithoutSize(p, suffix, outSize, max) ==
    Inst("IntSuffix", p, suffix, NilPtr, outSize, TRUE, max)

\* History kept beside each instruction: the name its size refers to and
\* the integer name its field binds.
FieldRef(hasRef, ref, hasBind, bind) ==
    [hasRef |-> hasRef, ref |-> ref, hasBind |-> hasBind, bind |-> bind]

NoRef == FieldRef(FALSE, <<>>, FALSE, <<>>)

\* --------------------------------------------------------------- Compile
\* The state one iteration of Compile's loop works on.
Cur ==
    [state |-> state, name |-> name, map |-> intBindsMap, sl |-> intBinds,
     arrs |-> arrays, insts |-> instSlice, refs |-> refs, err |-> NoCErr]

Emit(c, inst, ref) == [c EXCEPT !.insts = Append(@, inst), !.refs = Append(@, ref)]

Fail(c, code, p, n) == [c EXCEPT !.err = CompileError(code, p, n)]

\* intBindsMap[k] = v
Bind(map, k, v) == [n \in (DOMAIN map) \cup {k} |-> IF n = k THEN v ELSE map[n]]

\* Mutant of SizedVar: a name that is not in the map is taken as the size 0.
SizedVarLenient(c, tok, p, capture) ==
    LET n == ParseInt(tok) IN
    IF n.ok \/ tok \notin DOMAIN c.map
    THEN LET a == AppendInt(c.sl, c.arrs, n.val) IN
         Emit([c EXCEPT !.sl = a.sl, !.arrs = a.arrs],
              genInstVarWithSize(p, PtrTo(a.sl, a.sl.len - 1), capture), NoRef)
    ELSE Emit(c, genInstVarWithSize(p, PtrTo(c.sl, c.map[tok]), capture),
              FieldRef(TRUE, tok, FALSE, <<>>))

\* "_:12" / "_:Number" and "var/bin:12" / "var/bin:Number"
SizedVar(c, tok, p, capture) ==
    LET n == ParseInt(tok) IN
    IF n.ok
    THEN LET a == AppendInt(c.sl, c.arrs, n.val) IN
         Emit([c EXCEPT !.sl = a.sl, !.arrs = a.arrs],
              genInstVarWithSize(p, PtrTo(a.sl, a.sl.len - 1), capture), NoRef)
    ELSE IF tok \notin DOMAIN c.map
    THEN Fail(c, "VariableNotDefined", p, tok)
    ELSE Emit(c, genInstVarWithSize(p, PtrTo(c.sl, c.map[tok]), capture),
              FieldRef(TRUE, tok, FALSE, <<>>))

\* a field that starts with '_'
ParseBlind(c, line, p) ==
    IF Len(line) = 1
    THEN [c EXCEPT !.state = blindParseState]
    ELSE LET tokens == Split(line, ":") IN
         IF Len(tokens) # 2
         THEN Fail(c, "ColonExpected", p, <<>>)
         ELSE SizedVar(c, tokens[2], p, FALSE)

\* Mutant of ParseBin: the three characters tested by the switch are
\* enough, subTokens[0] is not compared with "bin".
ParseBinPrefix(c, tokens, p) ==
    LET subTokens == Split(tokens[2], ":") IN
    IF Len(subTokens) = 2
    THEN SizedVar(c, subTokens[2], p, TRUE)
    ELSE [c EXCEPT !.state = binParseState]

\* case "bin"
ParseBin(c, tokens, p) ==
    LET subTokens == Split(tokens[2], ":") IN
    IF subTokens[1] # <<"b", "i", "n">>
    THEN Fail(c, "InvalidType", p, <<>>)
    ELSE IF Len(subTokens) = 2
    THEN SizedVar(c, subTokens[2], p, TRUE)
    ELSE [c EXCEPT !.state = binParseState]

\* case "int"
ParseIntVar(c, tokens, p) ==
    LET subTokens == Split(tokens[2], ":") IN
    IF subTokens[1] # <<"i", "n", "t">>
    THEN Fail(c, "InvalidType", p, <<>>)
    ELSE IF Len(subTokens) = 2
    THEN LET n == ParseInt(subTokens[2]) IN
         IF n.ok
         THEN LET a1 == AppendInt(c.sl, c.arrs, n.val)
                  a2 == AppendInt(a1.sl, a1.arrs, 0)
              IN Emit([c EXCEPT !.sl = a2.sl, !.arrs = a2.arrs,
                                !.map = Bind(@, tokens[1], a2.sl.len - 1)],
                      genInstIntWithSize(p, PtrTo(a2.sl, a2.sl.len - 2),
                                         PtrTo(a2.sl, a2.sl.len - 1)),
                      FieldRef(FALSE, <<>>, TRUE, tokens[1]))
         ELSE IF subTokens[2] \notin DOMAIN c.map
         THEN Fail(c, "VariableNotDefined", p, subTokens[2])
         ELSE LET idx == c.map[subTokens[2]]
                  a == AppendInt(c.sl, c.arrs, 0)
              IN Emit([c EXCEPT !.sl = a.sl, !.arrs = a.arrs,
                                !.map = Bind(@, tokens[1], a.sl.len - 1)],
                      genInstIntWithSize(p, PtrTo(a.sl, idx), PtrTo(a.sl, a.sl.len - 1)),
                      FieldRef(TRUE, subTokens[2], TRUE, tokens[1]))
    ELSE [c EXCEPT !.name = tokens[1], !.state = intParseState]

\* a field that contains '/'
ParseBind(c, line, p) ==
    LET tokens == Split(line, "/") IN
    IF Len(tokens) # 2
    THEN Fail(c, "InvalidSlash", p, <<>>)
    ELSE IF Len(tokens[2]) < 3
    THEN Fail(c, "InvalidType", p, <<>>)
    ELSE LET t == SubSeq(tokens[2], 1, 3) IN
         IF t = <<"b", "i", "n">> THEN ParseBin(c, tokens, p)
         ELSE IF t = <<"i", "n", "t">> THEN ParseIntVar(c, tokens, p)
         ELSE Fail(c, "InvalidType", p, <<>>)

\* the suffix of the pending "_", "var/bin" or "var/int"
ParseSuffix(c, line, p, max) ==
    LET done ==
          IF c.state = blindParseState
          THEN Emit(c, genInstVarWithoutSize(p, line, FALSE, max), NoRef)
          ELSE IF c.state = binParseState
          THEN Emit(c, genInstVarWithoutSize(p, line, TRUE, max), NoRef)
          ELSE LET a == AppendInt(c.sl, c.arrs, 0) IN
               Emit([c EXCEPT !.sl = a.sl, !.arrs = a.arrs,
                              !.map = Bind(@, c.name, a.sl.len - 1)],
                    genInstIntWithoutSize(p, line, PtrTo(a.sl, a.sl.len - 1), max),
                    FieldRef(FALSE, <<>>, TRUE, c.name))
    IN [done EXCEPT !.state = nonParseState]

\* pure const
ParseConst(c, line, p) == Emit(c, genInstConst(p, line), NoRef)

\* Mutant of FieldKind: the pending state is tested first.
FieldKindPendingFirst(line, st) ==
    IF st # nonParseState THEN "suffix"
    ELSE IF line[1] = "_" THEN "blind"
    ELSE IF Contains(line, "/") THEN "bind"
    ELSE "const"

\* Which branch of the if/else-if chain a field takes.
FieldKind(line, st) ==
    IF line[1] = "_" THEN "blind"
    ELSE IF Contains(line, "/") THEN "bind"
    ELSE IF st # nonParseState THEN "suffix"
    ELSE "const"

CompileLine(c, line, p, max) ==
    LET k == FieldKind(line, c.state) IN
    IF k = "blind" THEN ParseBlind(c, line, p)
    ELSE IF k = "bind" THEN ParseBind(c, line, p)
    ELSE IF k = "suffix" THEN ParseSuffix(c, line, p, max)
    ELSE ParseConst(c, line, p)

\* trim the last ','
TrimComma(rawLine) ==
    IF rawLine[Len(rawLine)] = "," THEN SubSeq(rawLine, 1, Len(rawLine) - 1) ELSE rawLine

\* Mutant of NextPos: the trailing ',' is not counted.
NextPosNoComma(p, rawLine) ==
    p + (IF rawLine[Len(rawLine)] = "," THEN Len(rawLine) - 1 ELSE Len(rawLine))

\* pos += len(rawLine)
NextPos(p, rawLine) == p + Len(rawLine)

\* Compile(pattern, opts...) is called: the code before the loop.
\* max = 0 stands for no WithMaxVariableSize option.
CompileCall(Patterns, Maxes) ==
    /\ cret = "idle"
    /\ \E pat \in Patterns, max \in Maxes :
         /\ pattern' = pat
         /\ maxVarSize' = IF max = 0 THEN defaultMaxVarSize ELSE max
    /\ cret' = "running"
    /\ UNCHANGED <<r, state, pos, name, intBindsMap, cerr, nfields,
                   instSlice, intBinds, arrays, refs, m>>

\* One iteration of Compile's for loop.
CompileStep ==
    /\ cret = "running"
    /\ LET rs == ReadString(pattern, r)
           rawLine == rs.raw
       IN IF rawLine = <<>> \/ TrimComma(rawLine) = <<>>
          THEN \* rawLine[len(rawLine)-1] or line[0]: index out of range
               /\ cret' = "panic"
               /\ UNCHANGED <<r, state, pos, name, intBindsMap, cerr, nfields,
                              instSlice, intBinds, arrays, refs>>
          ELSE LET c == CompileLine(Cur, TrimComma(rawLine), pos, maxVarSize)
                   dangling == c.err = NoCErr /\ rs.eof /\ c.state # nonParseState
               IN /\ state' = c.state
                  /\ name' = c.name
                  /\ intBindsMap' = c.map
                  /\ intBinds' = c.sl
                  /\ arrays' = c.arrs
                  /\ instSlice' = c.insts
                  /\ refs' = c.refs
                  /\ cerr' = IF dangling THEN CompileError("SuffixExpected", pos, <<>>)
                             ELSE c.err
                  /\ cret' = IF c.err # NoCErr \/ dangling THEN "error"
                             ELSE IF rs.eof THEN "ok" ELSE "running"
                  /\ IF c.err = NoCErr /\ ~rs.eof
                     THEN pos' = NextPos(pos, rawLine) /\ r' = r + Len(rawLine)
                          /\ nfields' = nfields + 1
                     ELSE UNCHANGED <<pos, r, nfields>>
    /\ UNCHANGED <<pattern, maxVarSize, m>>

\* ----------------------------------------------------------- MatchReader
Procs == {1, 2}

\* A byte of make([]byte, n) that no Read has filled.
ZeroBytes(n) == [k \in 1..n |-> "NUL"]

\* The frame of one MatchReader invocation: the loop of MatchReader (ip,
\* binds), the locals of the running instruction (i is i or idx; midx, bs,
\* buf) and what MatchReader returned (mret, matched, merr).
\* The source r is what it has delivered so far: read, the bytes in order.
\* Its content is the environment's; only the delivered prefix is state.
\* History: start (bytes delivered when the instruction was called), log
\* (one entry per instruction that returned), short (a Read delivered less
\* than it could), arrs0 (the cells when MatchReader was called), rerr (the
\* error the source returned, if it did).
IdleFrame ==
    [mret |-> "idle", read |-> <<>>, ip |-> 0, binds |-> <<>>,
     matched |-> <<>>, merr |-> NoErr, i |-> 0, midx |-> 0, bs |-> 0,
     buf |-> <<>>, start |-> 0, log |-> <<>>, short |-> FALSE, arrs0 |-> <<>>,
     rerr |-> "nil"]

\* What an instruction returns: ([]byte, error); nil tells a nil slice
\* from an empty one. val is the integer it stored (history).
Ret(nil, buf, err, val) == [nil |-> nil, buf |-> buf, err |-> err, val |-> val]

LogEntry(f, ret, size) ==
    [ip |-> f.ip, size |-> size, from |-> f.start, to |-> Len(f.read),
     val |-> ret.val, ok |-> ret.err = NoErr, nil |-> ret.nil, buf |-> ret.buf]

IsSized(inst) == inst.op \in {"VarSized", "IntSized"}

IsSuffix(inst) == inst.op \in {"VarSuffix", "IntSuffix"}

\* Mutant of ErrCode: the integer instructions report as the binary ones.
ErrCodeShared(inst) == IF inst.op = "Const" THEN "ConstNotMuch" ELSE "VarNotMuch"

\* The runtime error code of each instruction kind.
ErrCode(inst) ==
    IF inst.op = "Const" THEN "ConstNotMuch"
    ELSE IF inst.op \in {"VarSized", "VarSuffix"} THEN "VarNotMuch"
    ELSE "IntVarNotMuch"

\* Mutant of Collect: an empty capture is dropped like a nil one.
CollectNonEmpty(binds, ret) == IF ~ret.nil /\ ret.buf # <<>> THEN Append(binds, ret.buf) ELSE binds

\* binds = append(binds, buf) when buf != nil
Collect(binds, ret) == IF ~ret.nil THEN Append(binds, ret.buf) ELSE binds

\* Mutant of Failed: the captures made so far are returned with the error.
FailedWithBinds(f, ret) == [f EXCEPT !.mret = "error", !.matched = f.binds, !.merr = ret.err]

\* return nil, err
Failed(f, ret) == [f EXCEPT !.mret = "error", !.matched = <<>>, !.merr = ret.err]

\* The bound of the read loop of Const, VarSized and IntSized: len(match),
\* or *size read again at each test.
LoopBound(inst, arrs) == IF inst.op = "Const" THEN Len(inst.match) ELSE Deref(arrs, inst.size)

\* Mutant of Advance: i = n.
AdvanceSet(i, n) == n

\* i += n
Advance(i, n) == i + n

\* Mutant of Want: the whole of buf is handed to r.Read at every pass.
WantWhole(f) == IF IsSuffix(instSlice[f.ip]) THEN 1 ELSE Len(f.buf)

\* The slice handed to r.Read: buf[i:], or buf[idx:idx+1].
Want(f) == IF IsSuffix(instSlice[f.ip]) THEN 1 ELSE Len(f.buf) - f.i

RECURSIVE Loop(_, _), Call(_, _), SizedLoop(_, _), Finish(_, _), Return(_, _, _, _)

\* MatchReader's for loop, at the instruction f.ip, run until the next
\* r.Read is issued or MatchReader returns.
Loop(f, arrs) ==
    IF f.ip > Len(instSlice)
    THEN [f |-> [f EXCEPT !.mret = "ok", !.matched = f.binds], arrs |-> arrs]
    ELSE Call(f, arrs)

\* inst(r) up to its first r.Read
Call(f, arrs) ==
    LET inst == instSlice[f.ip]
        g == [f EXCEPT !.start = Len(f.read), !.i = 0, !.midx = 0]
    IN IF inst.op = "Const"
       THEN SizedLoop([g EXCEPT !.buf = ZeroBytes(Len(inst.match)), !.bs = 0], arrs)
       ELSE IF IsSized(inst)
       THEN LET n == Deref(arrs, inst.size) IN
            IF n < 0
            THEN \* make([]byte, *size): len out of range
                 [f |-> [g EXCEPT !.mret = "panic",
                                  !.log = Append(@, LogEntry(g, Ret(TRUE, <<>>, NoErr, 0), n))],
                  arrs |-> arrs]
            ELSE SizedLoop([g EXCEPT !.buf = ZeroBytes(n), !.bs = 0], arrs)
       ELSE [f |-> [g EXCEPT !.bs = InitBufSize, !.buf = ZeroBytes(InitBufSize)],
             arrs |-> arrs]

\* for i < l (or i < *size): blocked in r.Read(buf[i:]), or past the loop
SizedLoop(f, arrs) ==
    IF f.i < LoopBound(instSlice[f.ip], arrs)
    THEN [f |-> f, arrs |-> arrs]
    ELSE Finish(f, arrs)

\* Const, VarSized, IntSized after their read loop
Finish(f, arrs) ==
    LET inst == instSlice[f.ip] IN
    IF inst.op = "Const"
    THEN IF inst.match # f.buf
         THEN Return(f, arrs, Ret(TRUE, <<>>, Error("ConstNotMuch", inst.pos, "nil"), 0),
                     Len(f.buf))
         ELSE Return(f, arrs, Ret(TRUE, <<>>, NoErr, 0), Len(f.buf))
    ELSE IF inst.op = "VarSized"
    THEN Return(f, arrs, Ret(~inst.capture, IF inst.capture THEN f.buf ELSE <<>>, NoErr, 0),
                Len(f.buf))
    ELSE LET n == ParseInt(f.buf) IN
         IF ~n.ok
         THEN Return(f, arrs, Ret(TRUE, <<>>, Error("IntVarNotMuch", inst.pos, "ErrSyntax"), 0),
                     Len(f.buf))
         ELSE Return(f, Store(arrs, inst.out, n.val), Ret(FALSE, f.buf, NoErr, n.val),
                     Len(f.buf))

\* buf, err := inst(r) has returned: the rest of the loop body
Return(f, arrs, ret, size) ==
    LET g == [f EXCEPT !.log = Append(@, LogEntry(f, ret, size))] IN
    IF ret.err # NoErr
    THEN [f |-> Failed(g, ret), arrs |-> arrs]
    ELSE Loop([g EXCEPT !.binds = Collect(@, ret), !.ip = @ + 1], arrs)

\* VarSuffix and IntSuffix: the window matched
SuffixDone(f, arrs) ==
    LET inst == instSlice[f.ip]
        prefix == SubSeq(f.buf, 1, f.midx)
    IN IF inst.op = "VarSuffix"
       THEN Return(f, arrs, Ret(~inst.capture, IF inst.capture THEN prefix ELSE <<>>, NoErr, 0), 0)
       ELSE LET n == ParseInt(prefix) IN
            IF ~n.ok
            THEN Return(f, arrs, Ret(TRUE, <<>>, Error("IntVarNotMuch", inst.pos, "ErrSyntax"), 0), 0)
            ELSE Return(f, Store(arrs, inst.out, n.val), Ret(FALSE, prefix, NoErr, n.val), 0)

\* Mutant of Exceeds: the buffer may double once more than max allows.
ExceedsLate(bs, max) == 2 * bs > 2 * max

\* bs *= 2 and the test against max: TRUE when the scan must fail
Exceeds(bs, max) == 2 * bs > max

\* if idx == bs: extend buf, or fail
Extend(f, arrs) ==
    LET inst == instSlice[f.ip] IN
    IF f.i = f.bs
    THEN IF Exceeds(f.bs, inst.max)
         THEN Return([f EXCEPT !.bs = 2 * f.bs], arrs,
                     Ret(TRUE, <<>>, [code |-> "VarExceedMaxSize", pos |-> inst.pos,
                                      cause |-> "nil", max |-> inst.max], 0), 0)
         ELSE [f |-> [f EXCEPT !.bs = 2 * f.bs, !.buf = f.buf \o ZeroBytes(f.bs)],
               arrs |-> arrs]
    ELSE [f |-> f, arrs |-> arrs]

\* Mutant of Scan: midx stays where it is when the window differs.
ScanNoSlide(f, arrs) ==
    LET suffix == instSlice[f.ip].match IN
    IF f.i >= Len(suffix)
    THEN IF suffix = SubSeq(f.buf, f.midx + 1, f.midx + Len(suffix))
         THEN SuffixDone(f, arrs)
         ELSE Extend(f, arrs)
    ELSE Extend(f, arrs)

\* One pass of the scan loop after r.Read returned without error; f.i is
\* idx already incremented.
Scan(f, arrs) ==
    LET suffix == instSlice[f.ip].match IN
    IF f.i >= Len(suffix)
    THEN IF f.midx + Len(suffix) > Len(f.buf)
         THEN \* buf[midx:midx+len(suffix)]: slice bounds out of range
              [f |-> [f EXCEPT !.mret = "panic"], arrs |-> arrs]
         ELSE IF suffix = SubSeq(f.buf, f.midx + 1, f.midx + Len(suffix))
         THEN SuffixDone(f, arrs)
         ELSE Extend([f EXCEPT !.midx = @ + 1], arrs)
    ELSE Extend(f, arrs)

\* buf with the n delivered bytes data copied in at offset i
Fill(buf, i, data) ==
    [k \in 1..Len(buf) |-> IF k > i /\ k <= i + Len(data) THEN data[k - i] ELSE buf[k]]

\* r.Read returned (len(data), err) with data copied into the slice: the
\* code that follows it, up to the next r.Read or to MatchReader's return.
AfterRead(f, arrs, data, err) ==
    LET inst == instSlice[f.ip]
        n == Len(data)
        g == [f EXCEPT !.read = @ \o data]
    IN IF err # "nil"
       THEN Return(g, arrs, Ret(TRUE, <<>>, Error(ErrCode(inst), inst.pos, err), 0),
                   IF IsSuffix(inst) THEN 0 ELSE Len(f.buf))
       ELSE IF IsSuffix(inst)
       THEN Scan([g EXCEPT !.buf = Fill(@, f.i, data), !.i = @ + 1], arrs)
       ELSE SizedLoop([g EXCEPT !.buf = Fill(@, f.i, data), !.i = Advance(@, n)], arrs)

\* tpm.MatchReader(r) is called by caller p.
MatchReader(p) ==
    /\ cret = "ok"
    /\ m[p].mret = "idle"
    /\ LET res == Loop([IdleFrame EXCEPT !.mret = "running", !.ip = 1, !.arrs0 = arrays],
                       arrays)
       IN /\ m' = [m EXCEPT ![p] = res.f]
          /\ arrays' = res.arrs
    /\ UNCHANGED compileVars

\* tpm.MatchReader(r) is called by caller p after the call of caller q has
\* returned: the same Matcher used again, one match after another.
MatchReaderAfter(p, q) ==
    /\ m[q].mret \in {"ok", "error"}
    /\ MatchReader(p)

IsPrefix(a, b) == Len(a) <= Len(b) /\ SubSeq(b, 1, Len(a)) = a

\* What a source that holds one of Sources, and has delivered read, can
\* deliver to a Read of a slice of length want: at least one byte (none
\* for an empty slice) and at most want, without error.
Deliverable(Sources, read, want) ==
    {SubSeq(s, Len(read) + 1, Len(read) + Min(n, Len(s) - Len(read))) :
        s \in {t \in Sources : IsPrefix(read, t) /\ Len(t) > Len(read)},
        n \in (IF want = 0 THEN {0} ELSE 1..want)}

\* The Read that caller p is blocked in returns data and no error.
ReadData(p, Sources) ==
    /\ m[p].mret = "running"
    /\ \E data \in Deliverable(Sources, m[p].read, Want(m[p])) :
         LET short == Len(data) < Want(m[p])
                      /\ \E t \in Sources : IsPrefix(m[p].read \o data, t)
                                            /\ Len(t) > Len(m[p].read) + Len(data)
             res == AfterRead([m[p] EXCEPT !.short = @ \/ short], arrays, data, "nil")
         IN /\ m' = [m EXCEPT ![p] = res.f]
            /\ arrays' = res.arrs
    /\ UNCHANGED compileVars

\* The Read that caller p is blocked in returns (0, io.EOF): the source
\* held exactly what it has delivered.
ReadEOF(p, Sources) ==
    /\ m[p].mret = "running"
    /\ m[p].read \in Sources
    /\ LET res == AfterRead([m[p] EXCEPT !.rerr = "EOF"], arrays, <<>>, "EOF")
       IN /\ m' = [m EXCEPT ![p] = res.f]
          /\ arrays' = res.arrs
    /\ UNCHANGED compileVars

\* The Read that caller p is blocked in returns (0, nil): no byte yet and
\* no error, which io.Reader allows (and discourages).
ReadZero(p) ==
    /\ m[p].mret = "running"
    /\ LET res == AfterRead(m[p], arrays, <<>>, "nil")
       IN /\ m' = [m EXCEPT ![p] = res.f]
          /\ arrays' = res.arrs
    /\ UNCHANGED compileVars

\* The Read that caller p is blocked in returns data from an endless
\* source of bytes "a", which has delivered nothing else so far.
ReadEndless(p) ==
    /\ m[p].mret = "running"
    /\ m[p].read = [j \in 1..Len(m[p].read) |-> "a"]
    /\ \E n \in 1..Want(m[p]) :
         LET res == AfterRead(m[p], arrays, [j \in 1..n |-> "a"], "nil")
         IN /\ m' = [m EXCEPT ![p] = res.f]
            /\ arrays' = res.arrs
    /\ UNCHANGED compileVars

\* The Read that caller p is blocked in returns (0, err), err one of Errs:
\* the source failed.
ReadErr(p, Errs) ==
    /\ m[p].mret = "running"
    /\ \E e \in Errs :
         LET res == AfterRead([m[p] EXCEPT !.rerr = e], arrays, <<>>, e)
         IN /\ m' = [m EXCEPT ![p] = res.f]
            /\ arrays' = res.arrs
    /\ UNCHANGED compileVars

\* ---------------------------------------------------------------- inputs
RECURSIVE JoinFields(_)
\* The pattern made of the fields fs, separated by ','.
JoinFields(fs) ==
    IF fs = <<>> THEN <<>>
    ELSE IF Len(fs) = 1 THEN fs[1]
    ELSE fs[1] \o <<",">> \o JoinFields(Tail(fs))

SeqsUpTo(S, n) == UNION {[1..k -> S] : k \in 0..n}

PatternsOf(F, n) == {JoinFields(fs) : fs \in SeqsUpTo(F, n)}

\* Fields of the compiler's specification: every shape of the grammar,
\* the malformed ones, and the empty field.
FieldsC ==
    {<<"_">>, <<"_", ":", "4">>, <<"_", ":", "N">>, <<"_", ":", "N", ":", "0">>,
     <<"N", "/", "i", "n", "t">>, <<"N", "/", "i", "n", "t", ":", "1">>,
     <<"V", "/", "b", "i", "n">>, <<"V", "/", "b", "i", "n", ":", "N">>,
     <<"x">>, <<>>, <<"N", "/", "i", "n", "t", "/", "b", "i", "n">>,
     <<"N", "/", "b", "i">>, <<"N", "/", "f", "o", "o">>}

Init ==
    /\ pattern = <<>>
    /\ r = 0
    /\ state = nonParseState
    /\ pos = 1
    /\ name = <<>>
    /\ intBindsMap = <<>>
    /\ cret = "idle"
    /\ cerr = NoCErr
    /\ nfields = 0
    /\ instSlice = <<>>
    /\ intBinds = NilSlice
    /\ maxVarSize = 0
    /\ arrays = <<>>
    /\ refs = <<>>
    /\ m = [p \in Procs |-> IdleFrame]

\* Compile alone, on every pattern of up to MaxFieldsC fields of FieldsC.
NextCompile ==
    \/ CompileCall(PatternsOf(FieldsC, MaxFieldsC), {0})
    \/ CompileStep

SpecCompile == Init /\ [][NextCompile]_vars

\* Fields and source bytes of the default specification: sized and
\* suffix-terminated fields, back-references, a negative and a zero size.
FieldsM ==
    {<<"_", ":", "1">>, <<"_", ":", "N">>, <<"_", ":", "-", "1">>,
     <<"N", "/", "i", "n", "t", ":", "1">>, <<"N", "/", "i", "n", "t">>,
     <<"V", "/", "b", "i", "n", ":", "N">>, <<"V", "/", "b", "i", "n", ":", "0">>,
     <<"V", "/", "b", "i", "n">>, <<"x">>}

BytesM == {"1", "2", "-", "x"}

\* Compile a pattern of up to MaxFields fields, then one MatchReader on a
\* source of up to MaxSrcLen bytes, delivered in chunks of any size.
Next ==
    \/ CompileCall(PatternsOf(FieldsM, MaxFields), {0})
    \/ CompileStep
    \/ MatchReader(1)
    \/ ReadData(1, SeqsUpTo(BytesM, MaxSrcLen))
    \/ ReadEOF(1, SeqsUpTo(BytesM, MaxSrcLen))

Spec == Init /\ [][Next]_vars

\* Fields and bytes for the fixed-size reads: a two-byte Const, literal
\* sizes of two and three, a two-digit integer and a back-reference.
FieldsK ==
    {<<"x", "y">>, <<"_", ":", "2">>, <<"V", "/", "b", "i", "n", ":", "3">>,
     <<"N", "/", "i", "n", "t", ":", "2">>, <<"V", "/", "b", "i", "n", ":", "N">>}

BytesK == {"0", "3", "x", "y"}

\* As Next, on patterns whose instructions read several bytes at a time.
NextChunk ==
    \/ CompileCall(PatternsOf(FieldsK, MaxFieldsK), {0})
    \/ CompileStep
    \/ MatchReader(1)
    \/ ReadData(1, SeqsUpTo(BytesK, MaxSrcLenK))
    \/ ReadEOF(1, SeqsUpTo(BytesK, MaxSrcLenK))

SpecChunk == Init /\ [][NextChunk]_vars

\* Sources for the suffix scans: a run of up to MaxFill bytes "a", then a
\* tail of up to two bytes.
FillBytes(k) == [j \in 1..k |-> "a"]

SourcesScan == {FillBytes(k) \o t : k \in 0..MaxFill, t \in SeqsUpTo({"1", "x"}, 2)}

FieldsS ==
    {<<"_">>, <<"V", "/", "b", "i", "n">>, <<"N", "/", "i", "n", "t">>, <<"x">>}

\* Maximum variable sizes given to WithMaxVariableSize: below 16, 16, not
\* 16 times a power of two, and 32.
MaxSizes == {8, 16, 24, 32}

\* Compile with WithMaxVariableSize, then one MatchReader on a long source.
NextScan ==
    \/ CompileCall(PatternsOf(FieldsS, MaxFieldsS), MaxSizes)
    \/ CompileStep
    \/ MatchReader(1)
    \/ ReadData(1, SourcesScan)
    \/ ReadEOF(1, SourcesScan)

SpecScan == Init /\ [][NextScan]_vars

\* Fields and bytes for two callers of one Matcher.
FieldsR ==
    {<<"N", "/", "i", "n", "t", ":", "1">>, <<"_", ":", "N">>,
     <<"V", "/", "b", "i", "n", ":", "N">>}

BytesR == {"1", "2"}

\* Compile, then two MatchReader invocations on the same Matcher, each with
\* its own source, their steps interleaved.
NextConc ==
    \/ CompileCall(PatternsOf(FieldsR, MaxFieldsR), {0})
    \/ CompileStep
    \/ \E p \in Procs :
         \/ MatchReader(p)
         \/ ReadData(p, SeqsUpTo(BytesR, MaxSrcLenR))
         \/ ReadEOF(p, SeqsUpTo(BytesR, MaxSrcLenR))

SpecConc == Init /\ [][NextConc]_vars

\* Fields that bind and reference integer names: two names, a self
\* reference, a name bound twice, suffix-terminated and sized.
FieldsB ==
    {<<"N", "/", "i", "n", "t">>, <<"N", "/", "i", "n", "t", ":", "1">>,
     <<"N", "/", "i", "n", "t", ":", "N">>, <<"M", "/", "i", "n", "t", ":", "N">>,
     <<"_", ":", "N">>, <<"V", "/", "b", "i", "n", ":", "N">>,
     <<"V", "/", "b", "i", "n", ":", "M">>, <<"_", ":", "1">>, <<"x">>}

\* Compile alone, on the patterns of up to MaxFieldsB fields of FieldsB.
NextBind ==
    \/ CompileCall(PatternsOf(FieldsB, MaxFieldsB), {0})
    \/ CompileStep

SpecBind == Init /\ [][NextBind]_vars

\* Fields for the syntax checks: well-formed directives, directives with
\* no, one and two ':', with two '/', and with a type that is too short,
\* too long or another word.
FieldsX ==
    {<<"_">>, <<"_", ":", "4">>, <<"_", ":", "N", ":", "0">>, <<"_", "x">>,
     <<"V", "/", "b", "i", "n">>, <<"V", "/", "b", "i", "n", ":", "1">>,
     <<"V", "/", "b", "i", "n", ":", "1", ":", "2">>,
     <<"N", "/", "i", "n", "t">>, <<"N", "/", "i", "n", "t", ":", "1">>,
     <<"N", "/", "i", "n", "t", ":", "1", ":", "2">>,
     <<"N", "/", "i", "n", "t", "/", "b", "i", "n">>, <<"N", "/", "/">>,
     <<"N", "/", "b", "i">>, <<"N", "/", "b", "i", ":", "1">>,
     <<"N", "/", "f", "o", "o">>, <<"N", "/", "i", "n", "t", "e">>,
     <<"V", "/", "b", "i", "n", "a", "r", "y">>,
     <<"V", "/", "b", "i", "n", "a", ":", "1">>, <<"x">>}

\* Compile alone, on the patterns of up to MaxFieldsX fields of FieldsX.
NextSyntax ==
    \/ CompileCall(PatternsOf(FieldsX, MaxFieldsX), {0})
    \/ CompileStep

SpecSyntax == Init /\ [][NextSyntax]_vars

\* Fields and sources for the runtime errors: every instruction kind, a
\* two-byte Const, and runs of "a" long enough to fill the first buffer.
FieldsE ==
    {<<"x", "y">>, <<"x">>, <<"_", ":", "2">>, <<"N", "/", "i", "n", "t", ":", "1">>,
     <<"N", "/", "i", "n", "t">>, <<"V", "/", "b", "i", "n">>, <<"_">>}

SourcesErr == {FillBytes(k) \o t : k \in 0..MaxFillE, t \in SeqsUpTo({"1", "x", "y"}, 2)}

\* Compile with a maximum of 16, then one MatchReader on a source that can
\* end, or fail with an error of its own, at any Read.
NextErr ==
    \/ CompileCall(PatternsOf(FieldsE, MaxFieldsE), {InitBufSize})
    \/ CompileStep
    \/ MatchReader(1)
    \/ ReadData(1, SourcesErr)
    \/ ReadEOF(1, SourcesErr)
    \/ ReadErr(1, {"ErrIO"})

SpecErr == Init /\ [][NextErr]_vars

\* Fields and bytes for a Matcher used twice: literal sizes (zero
\* included) before and after the cells of integer fields, a
\* back-reference, and both integer instructions.
FieldsQ ==
    {<<"_", ":", "1">>, <<"V", "/", "b", "i", "n", ":", "0">>,
     <<"N", "/", "i", "n", "t", ":", "1">>, <<"N", "/", "i", "n", "t">>,
     <<"V", "/", "b", "i", "n", ":", "N">>, <<"x">>}

BytesQ == {"1", "2", "x"}

\* Compile, then two MatchReader calls on the same Matcher, the second
\* after the first has returned, each on a source of its own.
NextSeq ==
    \/ CompileCall(PatternsOf(FieldsQ, MaxFieldsQ), {0})
    \/ CompileStep
    \/ MatchReader(1)
    \/ MatchReaderAfter(2, 1)
    \/ \E p \in Procs :
         \/ ReadData(p, SeqsUpTo(BytesQ, MaxSrcLenQ))
         \/ ReadEOF(p, SeqsUpTo(BytesQ, MaxSrcLenQ))

SpecSeq == Init /\ [][NextSeq]_vars

\* Fields and sources for the suffix window: suffixes of one, two and
\* three bytes, some that overlap themselves or the run of "a" before them.
FieldsW ==
    {<<"_">>, <<"V", "/", "b", "i", "n">>, <<"N", "/", "i", "n", "t">>,
     <<"x">>, <<"a", "x">>, <<"a", "a">>, <<"1", "1", "x">>}

SourcesWindow == {FillBytes(k) \o t : k \in 0..MaxFillW, t \in SeqsUpTo({"1", "x"}, 3)}

\* Compile with a maximum of 16, then one MatchReader that scans.
NextWindow ==
    \/ CompileCall(PatternsOf(FieldsW, MaxFieldsW), {InitBufSize})
    \/ CompileStep
    \/ MatchReader(1)
    \/ ReadData(1, SourcesWindow)
    \/ ReadEOF(1, SourcesWindow)

SpecWindow == Init /\ [][NextWindow]_vars

\* Fields and bytes for a source that may deliver nothing at a Read.
FieldsZ ==
    {<<"_">>, <<"V", "/", "b", "i", "n">>, <<"N", "/", "i", "n", "t">>,
     <<"x">>, <<"_", ":", "1">>}

BytesZ == {"1", "x"}

\* Compile with a maximum of 16, then one MatchReader on a source whose
\* Read may return no byte and no error before it delivers more.
NextZero ==
    \/ CompileCall(PatternsOf(FieldsZ, MaxFieldsZ), {InitBufSize})
    \/ CompileStep
    \/ MatchReader(1)
    \/ ReadData(1, SeqsUpTo(BytesZ, MaxSrcLenZ))
    \/ ReadZero(1)
    \/ ReadEOF(1, SeqsUpTo(BytesZ, MaxSrcLenZ))

SpecZero == Init /\ [][NextZero]_vars

\* Fields and sources for termination: the scans, a Const and two sized
\* fields; finite sources of a few bytes, and the endless run of "a",
\* which holds no suffix "x".
FieldsT ==
    {<<"_">>, <<"V", "/", "b", "i", "n">>, <<"N", "/", "i", "n", "t">>,
     <<"x">>, <<"_", ":", "2">>, <<"N", "/", "i", "n", "t", ":", "1">>}

SourcesTerm == {FillBytes(k) \o t : k \in 0..MaxFillT, t \in SeqsUpTo({"1", "x"}, 2)}

\* Maximum variable sizes from 16 up: 16, not 16 times a power of two, 32.
MaxSizesT == {16, 24, 32}

\* A Read of caller 1 returns: at least one byte, or io.EOF.
ReadReturns ==
    \/ ReadData(1, SourcesTerm)
    \/ ReadEOF(1, SourcesTerm)
    \/ ReadEndless(1)

\* Compile with WithMaxVariableSize, then one MatchReader on a finite
\* source or on the endless one.
NextTerm ==
    \/ CompileCall(PatternsOf(FieldsT, MaxFieldsT), MaxSizesT)
    \/ CompileStep
    \/ MatchReader(1)
    \/ ReadReturns

\* Every Read the match is blocked in returns.
SpecTerm == Init /\ [][NextTerm]_vars /\ WF_vars(ReadReturns)

\* ====================================================== claims: Compile
\* The field the next iteration of Compile's loop reads.
CurRaw == ReadString(pattern, r).raw

CurLine == TrimComma(CurRaw)

\* An iteration is about to parse a non-empty field.
AtField == cret = "running" /\ CurRaw # <<>> /\ CurLine # <<>>

CompileCodes ==
    {"ColonExpected", "VariableNotDefined", "SuffixExpected", "InvalidSlash", "InvalidType"}

\* C3. Compile totality: on every pattern, the empty one and those with an
\* empty field included, Compile returns a Matcher or one of the five
\* compile errors with a position; it never aborts.
CompileTotal ==
    /\ cret \in {"idle", "running", "ok", "error"}
    /\ cret = "error" => cerr.code \in CompileCodes /\ cerr.pos >= 1

\* The instruction instSlice'[Len(instSlice')] is the suffix instruction of
\* the pending directive st with the suffix line, and it is the only one
\* the step appended.
EmitsSuffixOf(st, line) ==
    /\ Len(instSlice') = Len(instSlice) + 1
    /\ LET last == instSlice'[Len(instSlice')] IN
         /\ last.op = (IF st = intParseState THEN "IntSuffix" ELSE "VarSuffix")
         /\ last.match = line
         /\ last.capture = (st # blindParseState)

\* A field that starts with '_' or contains '/'.
LooksLikeDirective(line) == line[1] = "_" \/ Contains(line, "/")

EmitsNoSuffix ==
    /\ Len(instSlice') >= Len(instSlice)
    /\ \A k \in (Len(instSlice) + 1)..Len(instSlice') : ~IsSuffix(instSlice'[k])

\* C4 as stated. Pending-suffix rule: the field that follows a
\* suffix-terminated directive is always taken as its literal suffix and
\* clears the pending state, whatever it looks like.
PendingFieldIsAlwaysSuffix ==
    [][(AtField /\ state # nonParseState)
         => (state' = nonParseState /\ EmitsSuffixOf(state, CurLine))]_vars

\* C4 as amended. The field that follows a suffix-terminated directive is
\* taken as its literal suffix, and clears the pending state, exactly when
\* it neither starts with '_' nor contains '/'. A field that does is parsed
\* as the directive it looks like: no suffix instruction is emitted and the
\* pending state is not cleared. "_" then "N/int" emits nothing and leaves
\* the integer N pending; "_" then "_:4" emits a non-capturing VarSized of
\* literal size 4 and leaves the blind pending.
PendingSuffixRule ==
    [][(AtField /\ state # nonParseState)
         => /\ IF LooksLikeDirective(CurLine)
               THEN state' # nonParseState /\ EmitsNoSuffix
               ELSE state' = nonParseState /\ EmitsSuffixOf(state, CurLine)
            /\ (state = blindParseState /\ CurLine = <<"N", "/", "i", "n", "t">>)
                 => /\ instSlice' = instSlice
                    /\ state' = intParseState
                    /\ name' = <<"N">>
                    /\ intBindsMap' = intBindsMap
            /\ (state = blindParseState /\ CurLine = <<"_", ":", "4">>)
                 => /\ Len(instSlice') = Len(instSlice) + 1
                    /\ instSlice'[Len(instSlice')].op = "VarSized"
                    /\ ~instSlice'[Len(instSlice')].capture
                    /\ Deref(arrays', instSlice'[Len(instSlice')].size) = 4
                    /\ state' = blindParseState]_vars

\* C4 witness: "_" then "N/int" have been parsed: nothing is emitted and
\* the integer N is pending.
PendingOverwritten ==
    /\ nfields = 2
    /\ cret = "running"
    /\ Len(pattern) >= 8
    /\ SubSeq(pattern, 1, 8) = <<"_", ",", "N", "/", "i", "n", "t", ",">>
    /\ state = intParseState
    /\ name = <<"N">>
    /\ instSlice = <<>>

RECURSIVE SumRaw(_, _)
\* The raw lengths, each with its ',', of the first k of the fields fs.
SumRaw(fs, k) == IF k = 0 THEN 0 ELSE SumRaw(fs, k - 1) + Len(fs[k]) + 1

\* C10. Compile-error position: every compile error carries the position
\* of the field at which it was detected, 1 plus the raw comma-inclusive
\* lengths of the fields before it; SuffixExpected carries the position of
\* the last field.
CompileErrorPosition ==
    cret = "error" =>
        LET fs == Split(pattern, ",") IN
        /\ nfields < Len(fs)
        /\ cerr.pos = 1 + SumRaw(fs, nfields)
        /\ cerr.code = "SuffixExpected" => nfields + 1 = Len(fs)

\* C10 witness: SuffixExpected at a third field.
SuffixExpectedAtThird ==
    cret = "error" /\ cerr.code = "SuffixExpected" /\ nfields = 2 /\ cerr.pos > 3

\* The size token of a field that is a sized directive: the text after the
\* one ':' of "_:tok", "name/bin:tok" or "name/int:tok"; <<>> otherwise.
SizeTok(line) ==
    IF line[1] = "_"
    THEN LET tokens == Split(line, ":") IN
         IF Len(tokens) = 2 THEN tokens[2] ELSE <<>>
    ELSE LET tokens == Split(line, "/") IN
         IF Len(tokens) # 2 THEN <<>>
         ELSE LET subTokens == Split(tokens[2], ":") IN
              IF Len(subTokens) = 2
                 /\ subTokens[1] \in {<<"b", "i", "n">>, <<"i", "n", "t">>}
              THEN subTokens[2] ELSE <<>>

\* The field refers to its size by name.
HasSizeRef(line) == SizeTok(line) # <<>> /\ ~ParseInt(SizeTok(line)).ok

\* The integer names whose instruction has been emitted.
EmittedNames == {refs[k].bind : k \in {j \in 1..Len(refs) : refs[j].hasBind}}

\* C11. Forward references are rejected: a field that refers to its size
\* by name compiles, emitting one instruction sized by that name, only if
\* an earlier integer field of that name has had its instruction emitted;
\* otherwise Compile fails with VariableNotDefined(name) at the position
\* of the referencing field and emits nothing. A self-reference and a
\* reference between "N/int" and its suffix are rejected.
ForwardRefRejected ==
    [][(AtField /\ HasSizeRef(CurLine))
         => IF SizeTok(CurLine) \in EmittedNames
            THEN /\ cret' = "error" => cerr'.code = "SuffixExpected"
                 /\ Len(instSlice') = Len(instSlice) + 1
                 /\ refs'[Len(refs')].hasRef
                 /\ refs'[Len(refs')].ref = SizeTok(CurLine)
            ELSE /\ cret' = "error"
                 /\ cerr' = CompileError("VariableNotDefined", pos, SizeTok(CurLine))
                 /\ instSlice' = instSlice
                 /\ intBindsMap' = intBindsMap]_vars

\* C11 witness: "_:N" or "V/bin:N" between "N/int" and its suffix was
\* rejected as not defined.
RefBeforeSuffixRejected ==
    /\ cret = "error"
    /\ cerr.code = "VariableNotDefined"
    /\ cerr.name = <<"N">>
    /\ state = intParseState
    /\ name = <<"N">>
    /\ nfields >= 1

\* C12. Named bindings are write-once: once a name is bound to a cell
\* index, no later field changes the index it maps to.
BindWriteOnce ==
    [][\A n \in DOMAIN intBindsMap :
         n \in DOMAIN intBindsMap' /\ intBindsMap'[n] = intBindsMap[n]]_vars

\* The number of times the byte c occurs in the field.
CountOf(line, c) == Len(Split(line, c)) - 1

\* The text after the first '/' of a field, up to its first ':' or its end.
TypeText(line) ==
    LET t == SubSeq(line, IndexOf(line, "/") + 1, Len(line))
        k == IndexOf(t, ":")
    IN IF k = 0 THEN t ELSE SubSeq(t, 1, k - 1)

\* A blind directive longer than "_".
IsBlindDirective(line) == line[1] = "_" /\ Len(line) > 1

\* A binding directive: "name/bin..." or "name/int...".
IsBindDirective(line) ==
    /\ line[1] # "_"
    /\ CountOf(line, "/") = 1
    /\ TypeText(line) \in {<<"b", "i", "n">>, <<"i", "n", "t">>}

\* Compile fails at this step with the code, at the position of the field.
FailsWith(code) == cret' = "error" /\ cerr'.code = code /\ cerr'.pos = pos

\* C13. ColonExpected: a blind directive longer than "_" with no ':' or
\* with two or more, and a binding directive with two ':' or more, makes
\* Compile fail with ColonExpected at the position of the field.
ColonRule ==
    [][(AtField /\ \/ IsBlindDirective(CurLine) /\ CountOf(CurLine, ":") # 1
                   \/ IsBindDirective(CurLine) /\ CountOf(CurLine, ":") >= 2)
         => FailsWith("ColonExpected")]_vars

\* C14. Type and slash validation: a field that does not start with '_'
\* and contains '/' fails with InvalidSlash when it has two '/' or more,
\* and with InvalidType when the text after its one '/', up to the first
\* ':' or the end, is not exactly "bin" or "int"; such a field emits no
\* instruction, allocates no cell and binds no name. A field with one '/'
\* and the type "bin" or "int" gets neither error.
SlashTypeRule ==
    [][(AtField /\ CurLine[1] # "_" /\ Contains(CurLine, "/"))
         => IF CountOf(CurLine, "/") >= 2 \/ ~IsBindDirective(CurLine)
            THEN /\ FailsWith(IF CountOf(CurLine, "/") >= 2 THEN "InvalidSlash"
                                ELSE "InvalidType")
                 /\ instSlice' = instSlice
                 /\ intBinds' = intBinds
                 /\ intBindsMap' = intBindsMap
                 /\ state' = state
            ELSE cerr'.code \notin {"InvalidSlash", "InvalidType"}]_vars

\* C14 witness: a type that starts with "bin" or "int" and is too long was
\* rejected with InvalidType.
LongTypeRejected ==
    /\ cret = "error"
    /\ cerr.code = "InvalidType"
    /\ Contains(CurLine, "/")
    /\ Len(TypeText(CurLine)) > 3
    /\ SubSeq(TypeText(CurLine), 1, 3) \in {<<"b", "i", "n">>, <<"i", "n", "t">>}

\* ================================================== claims: MatchReader
\* The producer of the size of instruction j: the last instruction before
\* j whose field binds the name the field of j refers to.
Producer(j) ==
    CHOOSE k \in 1..(j - 1) :
        /\ refs[k].hasBind /\ refs[k].bind = refs[j].ref
        /\ \A l \in (k + 1)..(j - 1) : ~(refs[l].hasBind /\ refs[l].bind = refs[j].ref)

\* C1. Back-reference consistency: an instruction sized by the integer
\* name X reads the size v that the field X parsed in this match, and
\* consumes exactly v bytes when it succeeds.
BackRefConsistent ==
    \A p \in Procs : \A j \in 1..Len(m[p].log) :
        refs[j].hasRef =>
            /\ m[p].log[j].size = m[p].log[Producer(j)].val
            /\ m[p].log[j].ok =>
                 m[p].log[j].to - m[p].log[j].from = m[p].log[Producer(j)].val

RuntimeCodes == {"ConstNotMuch", "VarNotMuch", "IntVarNotMuch", "VarExceedMaxSize"}

\* C2. Match totality: MatchReader returns the captures or one of the four
\* runtime errors; a negative size cell gives an error, not an abort.
MatchTotal ==
    \A p \in Procs :
        /\ m[p].mret \in {"idle", "running", "ok", "error"}
        /\ m[p].mret = "error" => m[p].merr.code \in RuntimeCodes

\* The instructions that capture: every binary and integer variable, no
\* blind one and no Const.
Capturing(inst) ==
    \/ inst.op \in {"IntSized", "IntSuffix"}
    \/ inst.op \in {"VarSized", "VarSuffix"} /\ inst.capture

CapIdx == SelectSeq([j \in 1..Len(instSlice) |-> j], LAMBDA j : Capturing(instSlice[j]))

\* The bytes of the source that instruction j consumed, less its suffix.
Segment(f, j) ==
    SubSeq(f.read, f.log[j].from + 1,
           f.log[j].to - (IF IsSuffix(instSlice[j]) THEN Len(instSlice[j].match) ELSE 0))

\* C5. Capture count and order: a successful match returns one entry per
\* capturing instruction, in instruction order, each the bytes that
\* instruction took from the source; an empty capture is an entry too.
CaptureCountOrder ==
    \A p \in Procs :
        m[p].mret = "ok" =>
            /\ Len(m[p].matched) = Len(CapIdx)
            /\ \A k \in 1..Len(CapIdx) : m[p].matched[k] = Segment(m[p], CapIdx[k])

\* C5 witness: a successful match with two captures or more, one empty.
EmptyCaptureKept ==
    /\ m[1].mret = "ok"
    /\ Len(m[1].matched) >= 2
    /\ \E k \in 1..Len(m[1].matched) : m[1].matched[k] = <<>>

\* C6. Fail-fast: when instruction k fails, MatchReader returns its error
\* and no captures, nothing after k has run, and the frame (the source's
\* delivered bytes included) never changes again.
FailFast ==
    /\ [](\A p \in Procs :
            m[p].mret = "error" =>
                /\ m[p].matched = <<>>
                /\ m[p].merr # NoErr
                /\ m[p].merr.pos = instSlice[m[p].ip].pos
                /\ Len(m[p].log) = m[p].ip
                /\ ~m[p].log[m[p].ip].ok
                /\ \A j \in 1..(m[p].ip - 1) : m[p].log[j].ok)
    /\ [][\A p \in Procs : m[p].mret = "error" => m'[p] = m[p]]_vars

\* C6 witness: a later instruction failed after captures were made.
FailedAfterCaptures ==
    /\ m[1].mret = "error"
    /\ m[1].ip >= 2
    /\ m[1].binds # <<>>
    /\ m[1].matched = <<>>

\* The largest buffer a suffix scan has while it runs.
ScanBufWithin(f) ==
    (f.mret = "running" /\ IsSuffix(instSlice[f.ip]))
        => /\ Len(f.buf) <= instSlice[f.ip].max
           /\ f.i <= instSlice[f.ip].max

\* C7. Buffer bound: for every positive maxVariableSize, below 16
\* included, the buffer of a suffix scan never has room for, nor holds,
\* more than maxVariableSize bytes.
BufferBound == \A p \in Procs : ScanBufWithin(m[p])

RECURSIVE OneShot(_, _, _)
\* The match from frame g on the source holding exactly S, every Read
\* delivering all the slice takes and the source has.
OneShot(g, arrs, S) ==
    IF g.mret # "running" THEN [f |-> g, arrs |-> arrs]
    ELSE LET rem == Len(S) - Len(g.read)
             n == Min(Want(g), rem)
         IN IF rem = 0
            THEN LET a == AfterRead(g, arrs, <<>>, "EOF") IN OneShot(a.f, a.arrs, S)
            ELSE IF n = 0 THEN [f |-> g, arrs |-> arrs]
            ELSE LET a == AfterRead(g, arrs, SubSeq(S, Len(g.read) + 1, Len(g.read) + n),
                                    "nil")
                 IN OneShot(a.f, a.arrs, S)

OneShotMatch(f) ==
    LET a == Loop([IdleFrame EXCEPT !.mret = "running", !.ip = 1, !.arrs0 = f.arrs0],
                  f.arrs0)
    IN OneShot(a.f, a.arrs, f.read)

\* C8. Short-read tolerance: a match whose source delivered its bytes in
\* chunks of any size ends as the match on a source that delivers them in
\* one Read each: same return, captures and error, same cells, same number
\* of bytes consumed.
ShortReadTolerance ==
    m[1].mret \in {"ok", "error"} =>
        LET o == OneShotMatch(m[1]) IN
        /\ o.f.mret = m[1].mret
        /\ o.f.matched = m[1].matched
        /\ o.f.merr = m[1].merr
        /\ o.f.binds = m[1].binds
        /\ Len(o.f.read) = Len(m[1].read)
        /\ o.arrs = arrays

\* C8 witness: a match succeeded although a Read came short, with an
\* IntSized instruction that took two bytes or more.
ShortReadSucceeded ==
    /\ m[1].mret = "ok"
    /\ m[1].short
    /\ \E j \in 1..Len(instSlice) :
         instSlice[j].op = "IntSized" /\ m[1].log[j].to - m[1].log[j].from >= 2

\* The instruction of p that wrote the cell instruction j reads its size
\* from, if any.
CellProducers(j) ==
    {k \in 1..(j - 1) : instSlice[k].op \in {"IntSized", "IntSuffix"}
                        /\ instSlice[k].out = instSlice[j].size}

\* The values the invocations in Q have stored through instruction k.
StoredBy(Q, k) == {m[q].log[k].val : q \in {x \in Q : Len(m[x].log) >= k /\ m[x].log[k].ok}}

\* C9. A Matcher is not safe for concurrent matches: the cells are shared.
\* The size a sized instruction allocates for is a value that some
\* invocation's integer instruction stored in its size cell, not always
\* its own; and when an invocation consumes a number of bytes different
\* from the value it parsed itself, the other invocation's integer
\* instruction has stored another value in that cell.
SharedCellsRace ==
    \A p \in Procs : \A j \in 1..Len(m[p].log) : \A k \in CellProducers(j) :
        IsSized(instSlice[j]) =>
            /\ m[p].log[j].size \in StoredBy(Procs, k)
            /\ (m[p].log[j].ok /\ m[p].log[j].to - m[p].log[j].from # m[p].log[k].val)
                 => StoredBy(Procs \ {p}, k) \ {m[p].log[k].val} # {}

\* C9 witness: invocation 1 parsed a value, invocation 2 overwrote the
\* cell, and invocation 1 consumed the number of bytes invocation 2 parsed.
RaceHappened ==
    \E j \in 1..Len(m[1].log) : \E k \in CellProducers(j) :
        /\ IsSized(instSlice[j])
        /\ m[1].log[j].ok
        /\ Len(m[2].log) >= k
        /\ m[1].log[j].to - m[1].log[j].from # m[1].log[k].val
        /\ m[1].log[j].to - m[1].log[j].from = m[2].log[k].val

\* The bytes the failed instruction of frame f took from the source.
Taken(f) == SubSeq(f.read, f.log[f.ip].from + 1, f.log[f.ip].to)

\* The suffix of the failed scan trails the bytes it took.
SuffixFound(f) ==
    LET s == instSlice[f.ip].match IN
    Len(Taken(f)) >= Len(s) /\ SubSeq(Taken(f), Len(Taken(f)) - Len(s) + 1, Len(Taken(f))) = s

\* The error of frame f is the read error the source returned.
IsReadError(f, code) ==
    f.merr.code = code /\ f.rerr # "nil" /\ f.merr.cause = f.rerr /\ f.merr.max = 0

\* The error of frame f has the code and cause, and the source returned
\* no error.
IsOwnError(f, code, cause, max) ==
    f.merr.code = code /\ f.rerr = "nil" /\ f.merr.cause = cause /\ f.merr.max = max

\* The error a failed instruction of each kind may return.
ErrorOfKind(f) ==
    LET inst == instSlice[f.ip]
        exceeded == /\ IsOwnError(f, "VarExceedMaxSize", "nil", inst.max)
                    /\ ~SuffixFound(f)
                    /\ 2 * Len(Taken(f)) > inst.max
    IN /\ f.merr.pos = inst.pos
       /\ inst.op = "Const" =>
            \/ IsReadError(f, "ConstNotMuch") /\ Len(Taken(f)) < Len(inst.match)
            \/ IsOwnError(f, "ConstNotMuch", "nil", 0)
                 /\ Len(Taken(f)) = Len(inst.match) /\ Taken(f) # inst.match
       /\ inst.op = "VarSized" => IsReadError(f, "VarNotMuch")
       /\ inst.op = "VarSuffix" => IsReadError(f, "VarNotMuch") \/ exceeded
       /\ inst.op = "IntSized" =>
            \/ IsReadError(f, "IntVarNotMuch")
            \/ IsOwnError(f, "IntVarNotMuch", "ErrSyntax", 0)
                 /\ Len(Taken(f)) = f.log[f.ip].size /\ ~ParseInt(Taken(f)).ok
       /\ inst.op = "IntSuffix" =>
            \/ IsReadError(f, "IntVarNotMuch")
            \/ exceeded
            \/ IsOwnError(f, "IntVarNotMuch", "ErrSyntax", 0) /\ SuffixFound(f)

\* C15. Runtime error codes and causes: a failed instruction returns the
\* code of its kind with the position of the field it was emitted from.
\* Const: ConstNotMatched with the source's error as cause, or with no
\* cause on a byte mismatch. VarSized, VarSuffix: VarNotMatched with the
\* source's error. IntSized, IntSuffix: IntVarNotMatched with the source's
\* error or the parse error. VarSuffix, IntSuffix: VarExceedsMaxSize(max)
\* with no cause when the buffer would grow past the maximum.
RuntimeErrorCodes == \A p \in Procs : m[p].mret = "error" => ErrorOfKind(m[p])

\* C15 witness: an integer scan failed on the source's own error after it
\* had taken bytes.
IntScanReadFailed ==
    /\ m[1].mret = "error"
    /\ instSlice[m[1].ip].op = "IntSuffix"
    /\ m[1].merr.cause = "ErrIO"
    /\ Taken(m[1]) # <<>>

\* The field of the pattern that instruction j was emitted from.
FieldOf(j) == TrimComma(ReadString(pattern, instSlice[j].pos - 1).raw)

\* Instruction j is sized by a literal of its field.
LiteralSized(j) == IsSized(instSlice[j]) /\ ParseInt(SizeTok(FieldOf(j))).ok

LiteralOf(j) == ParseInt(SizeTok(FieldOf(j))).val

\* C16. Literal sizes are stable: the cell of an instruction compiled
\* from a literal size N >= 0 holds N at all times and is the out cell of
\* no integer instruction, whatever cells later fields allocated and
\* earlier matches wrote; the instruction allocates N bytes and consumes
\* exactly N when it succeeds. With N = 0 it reads nothing and succeeds,
\* and a capturing one yields an empty capture.
LiteralStable ==
    \A j \in 1..Len(instSlice) :
        (cret = "ok" /\ LiteralSized(j) /\ LiteralOf(j) >= 0) =>
            /\ Deref(arrays, instSlice[j].size) = LiteralOf(j)
            /\ \A k \in 1..Len(instSlice) : instSlice[k].out # instSlice[j].size
            /\ \A p \in Procs :
                 /\ Len(m[p].log) >= j =>
                      LET e == m[p].log[j] IN
                      /\ e.size = LiteralOf(j)
                      /\ e.ok => e.to - e.from = LiteralOf(j)
                      /\ LiteralOf(j) = 0 =>
                           /\ e.ok /\ e.to = e.from
                           /\ instSlice[j].capture => ~e.nil /\ e.buf = <<>>
                 /\ (m[p].mret = "running" /\ m[p].ip = j) =>
                      /\ Len(m[p].buf) = LiteralOf(j)
                      /\ LiteralOf(j) > 0

\* C16 witness: the second match on a Matcher, whose first match stored an
\* integer, consumed the literal size of a first field whose cell is in a
\* backing array that later fields made intBinds leave.
LiteralAfterRealloc ==
    /\ cret = "ok"
    /\ Len(instSlice) >= 2
    /\ LiteralSized(1)
    /\ LiteralOf(1) > 0
    /\ instSlice[1].size.arr # intBinds.arr
    /\ \E k \in 1..Len(m[1].log) : instSlice[k].op \in {"IntSized", "IntSuffix"} /\ m[1].log[k].ok
    /\ m[2].mret = "ok"
    /\ m[2].log[1].to - m[2].log[1].from = LiteralOf(1)

\* The match of a freshly compiled Matcher of the same pattern on the
\* bytes the source of frame f delivered: the cells are those Compile left.
FreshMatch(f) ==
    LET a == Loop([IdleFrame EXCEPT !.mret = "running", !.ip = 1, !.arrs0 = m[1].arrs0],
                  m[1].arrs0)
    IN OneShot(a.f, a.arrs, f.read)

\* C20. Sequential reuse is history-independent: a MatchReader call made
\* after another one returned ends as the call on a freshly compiled
\* Matcher of the same pattern on the same source: same return, captures
\* and error, same number of bytes consumed.
HistoryIndependent ==
    m[2].mret \in {"ok", "error", "panic"} =>
        LET o == FreshMatch(m[2]) IN
        /\ o.f.mret = m[2].mret
        /\ o.f.matched = m[2].matched
        /\ o.f.merr = m[2].merr
        /\ Len(o.f.read) = Len(m[2].read)
        /\ o.f.log = m[2].log

\* C20 witness: the first call stored an integer and then failed; the
\* second call stored another one and succeeded with a sized capture.
ReusedAfterFailure ==
    /\ m[1].mret = "error"
    /\ m[2].mret = "ok"
    /\ \E k \in 1..Len(m[1].log) :
         /\ instSlice[k].op \in {"IntSized", "IntSuffix"}
         /\ m[1].log[k].ok
         /\ m[2].log[k].val # m[1].log[k].val
         /\ \E j \in (k + 1)..Len(instSlice) :
              instSlice[j].op = "VarSized" /\ instSlice[j].size = instSlice[k].out

\* The last Len(s) of the first k bytes of T are s.
OccursAt(T, s, k) == k >= Len(s) /\ k <= Len(T) /\ SubSeq(T, k - Len(s) + 1, k) = s

\* The bytes instruction j of frame f took from the source.
TakenBy(f, j) == SubSeq(f.read, f.log[j].from + 1, f.log[j].to)

\* The scan j of frame f stopped at the first occurrence of its suffix and
\* returned the bytes before it; or it failed with no occurrence among
\* the bytes it took.
StoppedAtFirst(f, j) ==
    LET e == f.log[j]
        s == instSlice[j].match
        T == TakenBy(f, j)
        found == e.ok \/ (f.mret = "error" /\ f.ip = j /\ f.merr.cause = "ErrSyntax")
    IN IF found
       THEN /\ OccursAt(T, s, Len(T))
            /\ \A k \in 1..(Len(T) - 1) : ~OccursAt(T, s, k)
            /\ ~e.nil => e.buf = SubSeq(T, 1, Len(T) - Len(s))
            /\ Len(T) <= instSlice[j].max
       ELSE /\ \A k \in 1..Len(T) : ~OccursAt(T, s, k)
            /\ f.merr.code = "VarExceedMaxSize" => Len(T) >= InitBufSize

\* The scan frame f is blocked in: before the Read that makes idx = i + 1,
\* the window of the next comparison starts at idx - |s| and ends within
\* the bytes read, and the suffix has not occurred.
WindowTracksIdx(f) ==
    LET s == instSlice[f.ip].match
        T == SubSeq(f.read, f.start + 1, Len(f.read))
    IN /\ f.i = Len(T)
       /\ SubSeq(f.buf, 1, f.i) = T
       /\ f.midx = (IF f.i + 1 >= Len(s) THEN f.i + 1 - Len(s) ELSE 0)
       /\ f.i + 1 < Len(s) => f.midx = 0
       /\ f.i + 1 <= Len(f.buf)
       /\ \A k \in 1..Len(T) : ~OccursAt(T, s, k)

\* C17. The suffix scan finds the first occurrence: VarSuffix and
\* IntSuffix stop at the earliest offset at which the last |s| bytes read
\* are s, overlapping candidates included, and return the bytes read
\* before that occurrence; at every comparison midx = idx - |s|, so the
\* window never reaches past the bytes read.
FirstOccurrence ==
    \A p \in Procs :
        /\ \A j \in 1..Len(m[p].log) : IsSuffix(instSlice[j]) => StoppedAtFirst(m[p], j)
        /\ (m[p].mret = "running" /\ IsSuffix(instSlice[m[p].ip])) => WindowTracksIdx(m[p])

\* C17 witness: a capturing scan for "aa" or "ax" returned a capture that
\* ends in "a", so a candidate window overlapped the occurrence.
OverlapFound ==
    /\ m[1].mret = "ok"
    /\ \E j \in 1..Len(m[1].log) :
         /\ instSlice[j].op = "VarSuffix"
         /\ Len(instSlice[j].match) = 2
         /\ ~m[1].log[j].nil
         /\ Len(m[1].log[j].buf) >= 2
         /\ m[1].log[j].buf[Len(m[1].log[j].buf)] = "a"

\* The bytes the source has delivered to the instruction frame f runs.
Delivered(f) == SubSeq(f.read, f.start + 1, Len(f.read))

\* C18. In a suffix scan idx is the number of bytes the source has
\* delivered to the instruction and buf[0:idx] is those bytes in order,
\* also when a Read returned no byte and no error before more data.
IdxIsDelivered ==
    \A p \in Procs :
        (m[p].mret = "running" /\ IsSuffix(instSlice[m[p].ip])) =>
            /\ m[p].i = Len(Delivered(m[p]))
            /\ SubSeq(m[p].buf, 1, m[p].i) = Delivered(m[p])

\* The number of bytes instruction j needs in all, given the bytes T it
\* has taken: the length of the Const, the value of the size cell, or for
\* a scan the bytes up to the end of the first occurrence of the suffix
\* (one more than it has while the suffix has not occurred).
Needs(j, T) ==
    LET inst == instSlice[j] IN
    IF inst.op = "Const" THEN Len(inst.match)
    ELSE IF IsSized(inst) THEN Deref(arrays, inst.size)
    ELSE IF \E k \in 1..Len(T) : OccursAt(T, inst.match, k)
    THEN CHOOSE k \in 1..Len(T) :
             /\ OccursAt(T, inst.match, k)
             /\ \A l \in 1..(k - 1) : ~OccursAt(T, inst.match, l)
    ELSE Len(T) + 1

\* The instructions of frame f that returned took their bytes one after
\* the other from the start of the source.
Contiguous(f) ==
    /\ \A j \in 1..Len(f.log) :
         f.log[j].from = (IF j = 1 THEN 0 ELSE f.log[j - 1].to)
    /\ f.mret # "running" =>
         Len(f.read) = (IF f.log = <<>> THEN 0 ELSE f.log[Len(f.log)].to)

\* Instruction j of frame f returned; it did not abort in make before its
\* first Read.
Returned(f, j) == ~(f.mret = "panic" /\ j = Len(f.log))

\* C19. Exact consumption: the slice an instruction hands to a Read is
\* never longer than what it still needs (Const: len(bytes) in all;
\* VarSized, IntSized: the value of the size cell in all; scans: one byte
\* per Read, none after the suffix occurred); an instruction that
\* succeeds has taken exactly what it needs; and a match that succeeds
\* has advanced the source by exactly the sum of those lengths.
ExactConsumption ==
    \A p \in Procs :
        /\ Contiguous(m[p])
        /\ m[p].mret = "running" =>
             /\ Want(m[p]) >= 1
             /\ Len(Delivered(m[p])) + Want(m[p]) <= Needs(m[p].ip, Delivered(m[p]))
        /\ \A j \in 1..Len(m[p].log) :
             /\ Returned(m[p], j) =>
                  m[p].log[j].to - m[p].log[j].from <= Needs(j, TakenBy(m[p], j))
             /\ (Returned(m[p], j) /\ m[p].log[j].ok) =>
                  m[p].log[j].to - m[p].log[j].from = Needs(j, TakenBy(m[p], j))
        /\ m[p].mret = "ok" => Len(m[p].log) = Len(instSlice)

\* C19 witness: a match of a scan followed by a sized instruction
\* succeeded after two bytes, short of the longest source.
StoppedShortOfSource ==
    /\ m[1].mret = "ok"
    /\ Len(instSlice) = 2
    /\ IsSuffix(instSlice[1])
    /\ IsSized(instSlice[2])
    /\ m[1].log[2].to - m[1].log[2].from = 1
    /\ Len(m[1].read) = 2

\* A scan has read fewer than max bytes while it runs, and at most max
\* when it has returned; when it fails for the size it has read 16 bytes
\* or more, none of them completing the suffix.
ScanReadsWithinMax(f) ==
    /\ (f.mret = "running" /\ IsSuffix(instSlice[f.ip])) =>
         Len(Delivered(f)) < instSlice[f.ip].max
    /\ \A j \in 1..Len(f.log) :
         IsSuffix(instSlice[j]) =>
             /\ Len(TakenBy(f, j)) <= instSlice[j].max
             /\ (f.mret = "error" /\ f.ip = j /\ f.merr.code = "VarExceedMaxSize") =>
                  /\ Len(TakenBy(f, j)) >= InitBufSize
                  /\ \A k \in 1..Len(TakenBy(f, j)) :
                       ~OccursAt(TakenBy(f, j), instSlice[j].match, k)

\* C21. Termination: on a source whose every Read returns at least one
\* byte or an error, MatchReader returns, on a finite source and on an
\* endless one that never holds the suffix; with maxVariableSize >= 16 a
\* scan reads at most maxVariableSize bytes, and without its suffix among
\* them it fails with VarExceedsMaxSize.
Termination ==
    /\ [](ScanReadsWithinMax(m[1]))
    /\ (m[1].mret = "running") ~> (m[1].mret \in {"ok", "error"})

\* C21 witness: on the endless source a scan with the maximum 32 read 32
\* bytes and failed with VarExceedsMaxSize(32).
EndlessScanFailed ==
    /\ m[1].mret = "error"
    /\ m[1].merr.code = "VarExceedMaxSize"
    /\ m[1].merr.max = 32
    /\ Len(Taken(m[1])) = 32
    /\ Taken(m[1]) = FillBytes(32)

====
